---- MODULE Spec2Model ----
(***************************************************************************)
(* Order lifecycle, record store and referral payout of the exchange bot.  *)
(*                                                                         *)
(* Numbers that the program keeps as Python floats are fixed-point         *)
(* integers here, in thousandths (1.0 is Scale).  Optional fields (None or *)
(* a value) are sequences of length 0 or 1.                                *)
(***************************************************************************)
EXTENDS Integers, Sequences, FiniteSets, TLC

\* ------------------------------------------------------------------ bounds
MaxOrders == 3

\* ------------------------------------------------------- fixed-point floats
Scale == 10 * 10 * 10
F(n) == n * Scale

None == <<>>
Some(v) == <<v>>
IsNone(o) == o = <<>>
Val(o) == o[1]

RECURSIVE GCD(_, _)
GCD(a, b) == IF b = 0 THEN a ELSE GCD(b, a % b)

\* floor(a * b / c) for a, b >= 0 and c > 0, reduced first so that the
\* product stays inside the integers of the checker
MulDiv(a, b, c) ==
    LET g1 == GCD(b, c)
        b1 == b \div g1
        c1 == c \div g1
        g2 == GCD(a, c1)
        a2 == a \div g2
        c2 == c1 \div g2
    IN  (a2 * b1) \div c2

\* round(x, 2) on a value in thousandths
Round2(x) == IF x >= 0 THEN ((x + 5) \div 10) * 10
                       ELSE 0 - (((0 - x) + 5) \div 10) * 10

\* ------------------------------------------------------------ configuration
INF == None

DEFAULT_CONFIG ==
    [admin_ids |-> <<>>,
     operator_ids |-> <<>>,
     rates |-> [ltc_usd_buy |-> F(80), ltc_usd_sell |-> F(78),
                usd_rub_buy |-> 73500, usd_rub_sell |-> F(72)],
     min_amount |-> F(1000),
     referral |-> [levels |->
        << [min |-> 1,   max |-> Some(10),  percentage |-> F(10)],
           [min |-> 11,  max |-> Some(25),  percentage |-> 12500],
           [min |-> 26,  max |-> Some(50),  percentage |-> F(15)],
           [min |-> 51,  max |-> Some(100), percentage |-> 17500],
           [min |-> 101, max |-> INF,       percentage |-> F(20)] >>]]

\* level["min"] <= referral_count <= level["max"], max possibly float("inf")
InLevel(level, n) ==
    /\ level.min <= n
    /\ (level.max = INF \/ n <= Val(level.max))

\* 0.05, the percentage returned when no level holds the count
DefaultFloor == 50

RECURSIVE ScanLevels(_, _, _)
ScanLevels(levels, i, n) ==
    IF i > Len(levels) THEN DefaultFloor
    ELSE IF InLevel(levels[i], n) THEN levels[i].percentage \div 100
    ELSE ScanLevels(levels, i + 1, n)

RECURSIVE ScanOldLevels(_, _, _, _)
ScanOldLevels(levels, i, n, percentage) ==
    IF i > Len(levels) THEN percentage
    ELSE IF n >= levels[i][1] THEN ScanOldLevels(levels, i + 1, n, levels[i][2])
    ELSE percentage

\* get_referral_percentage, the loaded config being an argument; the old
\* "referral_levels" structure is a sequence of <<level, value>> sorted by level
get_referral_percentage(cfg, referral_count) ==
    IF "referral" \in DOMAIN cfg /\ "levels" \in DOMAIN cfg.referral
    THEN ScanLevels(cfg.referral.levels, 1, referral_count)
    ELSE IF "referral_levels" \in DOMAIN cfg
    THEN ScanOldLevels(cfg.referral_levels, 1, referral_count, 0)
    ELSE DefaultFloor

\* ------------------------------------------------------------------- users
ADMIN_ID == 5
UserIds == {1, 2, 3, 4, 5}
NamedUsers == {1, 3, 4}

UserRecord(role, referrals, referrer_id) ==
    [role |-> role, balance |-> 0, total_volume |-> 0, completed_orders |-> 0,
     referrals |-> referrals, referrer_id |-> referrer_id]

\* the users document after user 1 registered through the link of user 3,
\* users 2, 3, 4 registered without one, and 4 was made an operator; the
\* super-admin ADMIN_ID never sent /start
InitUsers ==
    [u \in UserIds \ {ADMIN_ID} |->
        CASE u = 1 -> UserRecord("user", <<>>, Some(3))
          [] u = 3 -> UserRecord("user", <<1>>, None)
          [] u = 4 -> UserRecord("operator", <<>>, None)
          [] OTHER -> UserRecord("user", <<>>, None)]

\* users.get(str(user_id))
get_user(users, user_id) ==
    IF user_id \in DOMAIN users THEN Some(users[user_id]) ELSE None

\* users[str(user_id)] = user_data
save_user(users, user_id, user_data) ==
    [u \in DOMAIN users \cup {user_id} |->
        IF u = user_id THEN user_data ELSE users[u]]

SeqToSet(s) == {s[i] : i \in DOMAIN s}

is_admin(cfg, user_id) ==
    user_id = ADMIN_ID \/ user_id \in SeqToSet(cfg.admin_ids)

check_admin(users, cfg, user_id) ==
    IF user_id = ADMIN_ID THEN TRUE
    ELSE IF IsNone(get_user(users, user_id)) THEN FALSE
    ELSE users[user_id].role = "admin" \/ is_admin(cfg, user_id)

check_operator(users, cfg, user_id) ==
    IF check_admin(users, cfg, user_id) THEN TRUE
    ELSE IF IsNone(get_user(users, user_id)) THEN FALSE
    ELSE users[user_id].role \in {"operator", "admin"}

\* update.effective_user.username or f"ID:{user_id}"
OperatorUsername(u) == IF u \in NamedUsers THEN <<"@", u>> ELSE <<"ID:", u>>

\* ------------------------------------------------------------------ orders
OrderTypes == {"buy", "sell"}

\* the orders users place: <<user_id, order_type, amount>>
OrderInputs == {<<1, "buy", F(5880)>>, <<2, "sell", F(1000)>>}

\* who presses the operator buttons: a plain user, an operator, the super-admin
Callers == {2, 4, ADMIN_ID}

RECURSIVE Digits(_)
Digits(n) == IF n < 10 THEN <<n>> ELSE Append(Digits(n \div 10), n % 10)

RECURSIVE ZeroPad(_, _)
ZeroPad(ds, width) == IF Len(ds) >= width THEN ds ELSE ZeroPad(<<0>> \o ds, width)

\* f"Z{order_id:05d}"
OrderNumber(order_id) == <<"Z">> \o ZeroPad(Digits(order_id), 5)

EmptyOrders == [orders |-> <<>>, next_id |-> 1]

NewOrder_assigned(order_id, user_id, order_type, amount) ==
    [id |-> order_id, order_number |-> OrderNumber(order_id),
     user_id |-> user_id, order_type |-> order_type, amount |-> amount,
     status |-> "active", operator_id |-> Some(user_id),
     operator_username |-> Some(OperatorUsername(user_id)),
     completed_at |-> None, spread |-> None]

\* the order dict of create_order
NewOrder(order_id, user_id, order_type, amount) ==
    [id |-> order_id, order_number |-> OrderNumber(order_id),
     user_id |-> user_id, order_type |-> order_type, amount |-> amount,
     status |-> "active", operator_id |-> None, operator_username |-> None,
     completed_at |-> None, spread |-> None]

CreatedDoc_reused_id(data, user_id, order_type, amount) ==
    [orders |-> Append(data.orders,
                       NewOrder(data.next_id, user_id, order_type, amount)),
     next_id |-> data.next_id]

\* the document create_order saves, given the one it loaded
CreatedDoc(data, user_id, order_type, amount) ==
    [orders |-> Append(data.orders,
                       NewOrder(data.next_id, user_id, order_type, amount)),
     next_id |-> data.next_id + 1]

\* index of the first order with this id, 0 when there is none
RECURSIVE IndexFrom(_, _, _)
IndexFrom(orders, i, order_id) ==
    IF i > Len(orders) THEN 0
    ELSE IF orders[i].id = order_id THEN i
    ELSE IndexFrom(orders, i + 1, order_id)

IndexOf(data, order_id) == IndexFrom(data.orders, 1, order_id)

get_order(data, order_id) ==
    IF IndexOf(data, order_id) = 0 THEN None
    ELSE Some(data.orders[IndexOf(data, order_id)])

\* {**order, **updates}
Merge(order, updates) ==
    [f \in DOMAIN order |-> IF f \in DOMAIN updates THEN updates[f] ELSE order[f]]

\* the document update_order saves, given the one it loaded
UpdatedDoc(data, order_id, updates) ==
    [data EXCEPT !.orders[IndexOf(data, order_id)] = Merge(@, updates)]

\* ------------------------------------------------------------------ spread
calculate_spread_at_start(cfg, amount, order_type) ==
    LET rates == DEFAULT_CONFIG.rates
        is_buy == order_type = "buy"
        buy_rate == MulDiv(rates.ltc_usd_buy, rates.usd_rub_buy, Scale)
        sell_rate == MulDiv(rates.ltc_usd_sell, rates.usd_rub_sell, Scale)
        actual_rate == IF is_buy THEN buy_rate ELSE sell_rate
        our_cost_rate == IF is_buy THEN sell_rate ELSE buy_rate
        our_cost == MulDiv(amount, our_cost_rate, actual_rate)
        spread == IF is_buy THEN amount - our_cost ELSE our_cost - amount
    IN  Round2(spread)

\* helpers.calculate_spread; amount / actual_rate * our_cost_rate is taken
\* as one exact quotient
calculate_spread(cfg, amount, order_type) ==
    LET rates == cfg.rates
        is_buy == order_type = "buy"
        buy_rate == MulDiv(rates.ltc_usd_buy, rates.usd_rub_buy, Scale)
        sell_rate == MulDiv(rates.ltc_usd_sell, rates.usd_rub_sell, Scale)
        actual_rate == IF is_buy THEN buy_rate ELSE sell_rate
        our_cost_rate == IF is_buy THEN sell_rate ELSE buy_rate
        our_cost == MulDiv(amount, our_cost_rate, actual_rate)
        spread == IF is_buy THEN amount - our_cost ELSE our_cost - amount
    IN  Round2(spread)

\* ------------------------------------------------------- completion effects
process_referral_bonus_self(users, cfg, user_id, spread) ==
    LET user == get_user(users, user_id) IN
    IF IsNone(user) THEN users
    ELSE
      LET referrer_id == IF IsNone(Val(user).referrer_id) THEN user_id
                         ELSE Val(Val(user).referrer_id)
          referrer == get_user(users, referrer_id) IN
      IF IsNone(referrer) THEN users
      ELSE
        LET bonus_amount == MulDiv(spread, 100, Scale) \div 100 IN
        IF bonus_amount <= 0 THEN users
        ELSE save_user(users, referrer_id,
                [Val(referrer) EXCEPT !.balance = @ + bonus_amount])

\* the users document after process_referral_bonus
process_referral_bonus(users, cfg, user_id, spread) ==
    LET user == get_user(users, user_id) IN
    IF IsNone(user) THEN users
    ELSE IF IsNone(Val(user).referrer_id) THEN users
    ELSE
      LET referrer_id == Val(Val(user).referrer_id)
          referrer == get_user(users, referrer_id) IN
      IF IsNone(referrer) THEN users
      ELSE
        LET referral_count == Len(Val(referrer).referrals)
            bonus_percentage == get_referral_percentage(cfg, referral_count)
            bonus_amount == MulDiv(spread, bonus_percentage, Scale) \div 100 IN
        IF bonus_percentage <= 0 \/ bonus_amount <= 0 THEN users
        ELSE save_user(users, referrer_id,
                [Val(referrer) EXCEPT !.balance = @ + bonus_amount])

\* the users document after the owner's statistics were updated
UpdateStats(users, user_id, amount) ==
    IF IsNone(get_user(users, user_id)) THEN users
    ELSE save_user(users, user_id,
            [users[user_id] EXCEPT !.total_volume = @ + amount,
                                   !.completed_orders = @ + 1])

\* the users document after send_order_notification; delivered is FALSE when
\* sending to the client, or to the group chat and then to the admin, raised
send_order_notification(users, cfg, order, delivered) ==
    IF ~delivered THEN users
    ELSE
      LET spread == Val(order.spread)
          paid == IF spread > 0
                  THEN process_referral_bonus(users, cfg, order.user_id, spread)
                  ELSE users
      IN  UpdateStats(paid, order.user_id, order.amount)

VARIABLES
    config,     \* content of config.json
    usersDb,    \* content of data/users.json
    ordersDb,   \* content of data/orders.json
    commandsDb, \* content of data/commands.json
    reply,      \* what the last handler answered
    procs,      \* the handlers in flight when updates are handled concurrently
    calls,      \* how many of them were started
    probe,      \* argument and result of a function applied on its own
    defaults,   \* the module-level DEFAULT_CONFIG object of the running process
    locks       \* who holds user_lock, order_lock and command_lock

vars == <<config, usersDb, ordersDb, commandsDb, reply, procs, calls, probe,
          defaults, locks>>

\* the three asyncio.Lock objects of the database module, nobody inside
Locks == {"user_lock", "order_lock", "command_lock"}
Unlocked == [l \in Locks |-> None]

OrderIds == 1 .. MaxOrders

Answer(a, order_id) == [answer |-> a, id |-> order_id]

\* datetime.now() when this order is completed: a logical time, later than
\* the completion time the order already carries
Now(order) == IF IsNone(order.completed_at) THEN 1 ELSE Val(order.completed_at) + 1

\* ------------------------------------------- handlers, one update at a time
\* the dispatcher runs a handler to its end before it takes the next update
Procs == {"a", "b"}

NoArgs == [user_id |-> 0, order_id |-> 0, order_type |-> "", amount |-> 0,
           spread |-> 0, now |-> 0, name |-> "", text |-> ""]

\* a handler in flight: where it is, its arguments and locals, the document
\* it loaded (orders, users or commands), the user record it is about to
\* save, and its answer once it is done
Idle == [pc |-> "idle", args |-> NoArgs, odata |-> None, udata |-> None,
         cdata |-> None, rec |-> None, ret |-> None]

\* main() puts the super-admin into admin_ids before the bot starts
StartConfig == [DEFAULT_CONFIG EXCEPT !.admin_ids = Append(@, ADMIN_ID)]

Stores ==
    /\ config = StartConfig
    /\ usersDb = InitUsers
    /\ ordersDb = EmptyOrders
    /\ commandsDb = <<>>

Init ==
    /\ Stores
    /\ reply = Answer("started", 0)
    /\ procs = [p \in Procs |-> Idle]
    /\ calls = 0
    /\ probe = None
    /\ defaults = DEFAULT_CONFIG
    /\ locks = Unlocked

Concurrent == <<procs, calls, probe, commandsDb, defaults, locks>>

create_order(user_id, order_type, amount) ==
    /\ Len(ordersDb.orders) < MaxOrders
    /\ ordersDb' = CreatedDoc(ordersDb, user_id, order_type, amount)
    /\ reply' = Answer("created", ordersDb.next_id)
    /\ UNCHANGED <<config, usersDb, Concurrent>>

Reject(a, order_id) ==
    /\ reply' = Answer(a, 0)
    /\ UNCHANGED <<config, usersDb, ordersDb, Concurrent>>

operator_take_order_unchecked(user_id, order_id) ==
    LET order == get_order(ordersDb, order_id) IN
    IF ~check_operator(usersDb, config, user_id) THEN Reject("no_rights", order_id)
    ELSE IF IsNone(order) THEN Reject("not_found", order_id)
    ELSE
        /\ ordersDb' = UpdatedDoc(ordersDb, order_id,
                [status |-> "in_progress",
                 operator_id |-> Some(user_id),
                 operator_username |-> Some(OperatorUsername(user_id))])
        /\ reply' = Answer("taken", 0)
        /\ UNCHANGED <<config, usersDb, Concurrent>>

operator_take_order(user_id, order_id) ==
    LET order == get_order(ordersDb, order_id) IN
    IF ~check_operator(usersDb, config, user_id) THEN Reject("no_rights", order_id)
    ELSE IF IsNone(order) THEN Reject("not_found", order_id)
    ELSE IF Val(order).status # "active" THEN Reject("not_active", order_id)
    ELSE
        /\ ordersDb' = UpdatedDoc(ordersDb, order_id,
                [status |-> "in_progress",
                 operator_id |-> Some(user_id),
                 operator_username |-> Some(OperatorUsername(user_id))])
        /\ reply' = Answer("taken", 0)
        /\ UNCHANGED <<config, usersDb, Concurrent>>

operator_complete_order_unchecked(user_id, order_id, delivered) ==
    LET order == get_order(ordersDb, order_id) IN
    IF ~check_operator(usersDb, config, user_id) THEN Reject("no_rights", order_id)
    ELSE IF IsNone(order) THEN Reject("not_found", order_id)
    ELSE IF Val(order).status = "completed"
    THEN Reject("not_in_progress", order_id)
    ELSE
      LET spread == calculate_spread(config, Val(order).amount, Val(order).order_type)
          saved == UpdatedDoc(ordersDb, order_id,
                      [status |-> "completed",
                       completed_at |-> Some(Now(Val(order))),
                       spread |-> Some(spread)])
          updated_order == Val(get_order(saved, order_id))
      IN
        /\ ordersDb' = saved
        /\ usersDb' = send_order_notification(usersDb, config, updated_order, delivered)
        /\ reply' = Answer("completed", 0)
        /\ UNCHANGED <<config, Concurrent>>

operator_complete_order(user_id, order_id, delivered) ==
    LET order == get_order(ordersDb, order_id) IN
    IF ~check_operator(usersDb, config, user_id) THEN Reject("no_rights", order_id)
    ELSE IF IsNone(order) THEN Reject("not_found", order_id)
    ELSE IF Val(order).status # "in_progress"
    THEN Reject("not_in_progress", order_id)
    ELSE IF Val(order).operator_id # Some(user_id)
    THEN Reject("other_operator", order_id)
    ELSE
      LET spread == calculate_spread(config, Val(order).amount, Val(order).order_type)
          saved == UpdatedDoc(ordersDb, order_id,
                      [status |-> "completed",
                       completed_at |-> Some(Now(Val(order))),
                       spread |-> Some(spread)])
          updated_order == Val(get_order(saved, order_id))
      IN
        /\ ordersDb' = saved
        /\ usersDb' = send_order_notification(usersDb, config, updated_order, delivered)
        /\ reply' = Answer("completed", 0)
        /\ UNCHANGED <<config, Concurrent>>

Next ==
    \/ \E in \in OrderInputs : create_order(in[1], in[2], in[3])
    \/ \E u \in Callers, o \in OrderIds : operator_take_order(u, o)
    \/ \E u \in Callers, o \in OrderIds, d \in BOOLEAN :
            operator_complete_order(u, o, d)

Spec == Init /\ [][Next]_vars

\* ------------------------------------------------------ commands collection
CommandNames == {"rates"}
Responses == {"r1", "r2"}

CommandRecord(command, response) ==
    [command |-> command, response |-> response, buttons |-> <<>>]

RECURSIVE CommandIndexFrom(_, _, _)
CommandIndexFrom(commands, i, command) ==
    IF i > Len(commands) THEN 0
    ELSE IF commands[i].command = command THEN i
    ELSE CommandIndexFrom(commands, i + 1, command)

\* the list add_custom_command saves, given the one it loaded
AddedCommands(commands, command, response) ==
    LET i == CommandIndexFrom(commands, 1, command) IN
    IF i > 0 THEN [commands EXCEPT ![i] = CommandRecord(command, response)]
    ELSE Append(commands, CommandRecord(command, response))

KeepOther(commands, command) == SelectSeq(commands, LAMBDA c : c.command # command)

\* --------------------------------------- handlers, updates handled concurrently
\* A handler runs from one store call or send to the next in one step.  A
\* store call holds the lock of its collection from its read or write of the
\* file to its return, so each get_* and each save_* is atomic, and the
\* handler's code up to its next store call runs with it.
MaxCalls == 4

TakeUpdates(user_id) ==
    [status |-> "in_progress",
     operator_id |-> Some(user_id),
     operator_username |-> Some(OperatorUsername(user_id))]

CompleteUpdates(now, spread) ==
    [status |-> "completed", completed_at |-> Some(now), spread |-> Some(spread)]

Goto(p, l) == procs' = [procs EXCEPT ![p] = l]

Done(p, a, order_id) ==
    Goto(p, [Idle EXCEPT !.pc = "done", !.ret = Some(Answer(a, order_id))])

At(p, pcs) == procs[p].pc \in pcs

Begin(p) ==
    /\ At(p, {"idle"})
    /\ calls < MaxCalls
    /\ calls' = calls + 1

Rest == <<config, reply, probe, defaults, locks>>

\* create_order up to its save_orders
create_order_load(p, user_id, order_type, amount) ==
    /\ Begin(p)
    /\ Goto(p, [Idle EXCEPT !.pc = "create_save",
                            !.args = [NoArgs EXCEPT !.user_id = user_id,
                                                    !.order_type = order_type,
                                                    !.amount = amount],
                            !.odata = Some(ordersDb)])
    /\ UNCHANGED <<ordersDb, usersDb, commandsDb, Rest>>

\* save_orders of create_order, and its return
create_order_save(p) ==
    LET l == procs[p] IN
    /\ At(p, {"create_save"})
    /\ ordersDb' = CreatedDoc(Val(l.odata), l.args.user_id, l.args.order_type,
                              l.args.amount)
    /\ Done(p, "created", Val(l.odata).next_id)
    /\ UNCHANGED <<usersDb, commandsDb, calls, Rest>>

\* operator_take_order up to the get_orders of update_order
take_get_order(p, user_id, order_id) ==
    LET order == get_order(ordersDb, order_id) IN
    /\ Begin(p)
    /\ IF ~check_operator(usersDb, config, user_id) THEN Done(p, "no_rights", order_id)
       ELSE IF IsNone(order) THEN Done(p, "not_found", order_id)
       ELSE IF Val(order).status # "active" THEN Done(p, "not_active", order_id)
       ELSE Goto(p, [Idle EXCEPT !.pc = "take_load",
                                 !.args = [NoArgs EXCEPT !.user_id = user_id,
                                                         !.order_id = order_id]])
    /\ UNCHANGED <<ordersDb, usersDb, commandsDb, Rest>>

\* operator_complete_order up to the get_orders of update_order
complete_get_order(p, user_id, order_id) ==
    LET order == get_order(ordersDb, order_id) IN
    /\ Begin(p)
    /\ IF ~check_operator(usersDb, config, user_id) THEN Done(p, "no_rights", order_id)
       ELSE IF IsNone(order) THEN Done(p, "not_found", order_id)
       ELSE IF Val(order).status # "in_progress"
       THEN Done(p, "not_in_progress", order_id)
       ELSE IF Val(order).operator_id # Some(user_id)
       THEN Done(p, "other_operator", order_id)
       ELSE Goto(p, [Idle EXCEPT !.pc = "complete_load",
                !.args = [NoArgs EXCEPT
                    !.user_id = Val(order).user_id,
                    !.order_id = order_id,
                    !.amount = Val(order).amount,
                    !.now = Now(Val(order)),
                    !.spread = calculate_spread(config, Val(order).amount,
                                                Val(order).order_type)]])
    /\ UNCHANGED <<ordersDb, usersDb, commandsDb, Rest>>

\* get_orders of update_order and its search for the order
update_order_load(p) ==
    LET l == procs[p] IN
    /\ At(p, {"take_load", "complete_load"})
    /\ IF IndexOf(ordersDb, l.args.order_id) = 0
       THEN Done(p, "update_failed", l.args.order_id)
       ELSE Goto(p, [l EXCEPT !.pc = IF l.pc = "take_load" THEN "take_save"
                                     ELSE "complete_save",
                              !.odata = Some(ordersDb)])
    /\ UNCHANGED <<ordersDb, usersDb, commandsDb, calls, Rest>>

\* save_orders of update_order for a take; the messages and the order view
\* that follow change nothing
take_save(p) ==
    LET l == procs[p] IN
    /\ At(p, {"take_save"})
    /\ ordersDb' = UpdatedDoc(Val(l.odata), l.args.order_id,
                              TakeUpdates(l.args.user_id))
    /\ Done(p, "taken", l.args.order_id)
    /\ UNCHANGED <<usersDb, commandsDb, calls, Rest>>

\* save_orders of update_order for a completion
complete_save(p) ==
    LET l == procs[p] IN
    /\ At(p, {"complete_save"})
    /\ ordersDb' = UpdatedDoc(Val(l.odata), l.args.order_id,
                              CompleteUpdates(l.args.now, l.args.spread))
    /\ Goto(p, [l EXCEPT !.pc = "notify", !.odata = None])
    /\ UNCHANGED <<usersDb, commandsDb, calls, Rest>>

\* the answer, the edited message and the sends of send_order_notification
notify(p, delivered) ==
    LET l == procs[p] IN
    /\ At(p, {"notify"})
    /\ IF ~delivered THEN Done(p, "completed", l.args.order_id)
       ELSE Goto(p, [l EXCEPT !.pc = IF l.args.spread > 0 THEN "bonus_user"
                                     ELSE "stats_user"])
    /\ UNCHANGED <<ordersDb, usersDb, commandsDb, calls, Rest>>

\* process_referral_bonus: get_user of the owner
bonus_get_user(p) ==
    LET l == procs[p]
        user == get_user(usersDb, l.args.user_id) IN
    /\ At(p, {"bonus_user"})
    /\ IF IsNone(user) \/ IsNone(Val(user).referrer_id)
       THEN Goto(p, [l EXCEPT !.pc = "stats_user"])
       ELSE Goto(p, [l EXCEPT !.pc = "bonus_referrer", !.rec = user])
    /\ UNCHANGED <<ordersDb, usersDb, commandsDb, calls, Rest>>

\* process_referral_bonus: get_user of the referrer and the bonus
bonus_get_referrer(p) ==
    LET l == procs[p]
        referrer_id == Val(Val(l.rec).referrer_id)
        referrer == get_user(usersDb, referrer_id)
        bonus_percentage ==
            get_referral_percentage(config, Len(Val(referrer).referrals))
        bonus_amount == MulDiv(l.args.spread, bonus_percentage, Scale) \div 100
    IN
    /\ At(p, {"bonus_referrer"})
    /\ IF IsNone(referrer) THEN Goto(p, [l EXCEPT !.pc = "stats_user", !.rec = None])
       ELSE IF bonus_percentage <= 0 \/ bonus_amount <= 0
       THEN Goto(p, [l EXCEPT !.pc = "stats_user", !.rec = None])
       ELSE Goto(p, [l EXCEPT !.pc = "bonus_load",
                              !.args.now = referrer_id,
                              !.rec = Some([Val(referrer) EXCEPT
                                              !.balance = @ + bonus_amount])])
    /\ UNCHANGED <<ordersDb, usersDb, commandsDb, calls, Rest>>

\* send_order_notification: get_user of the owner and the new statistics
stats_get_user(p) ==
    LET l == procs[p]
        user == get_user(usersDb, l.args.user_id) IN
    /\ At(p, {"stats_user"})
    /\ IF IsNone(user) THEN Done(p, "completed", l.args.order_id)
       ELSE Goto(p, [l EXCEPT !.pc = "stats_load",
                              !.args.now = l.args.user_id,
                              !.rec = Some([Val(user) EXCEPT
                                  !.total_volume = @ + l.args.amount,
                                  !.completed_orders = @ + 1])])
    /\ UNCHANGED <<ordersDb, usersDb, commandsDb, calls, Rest>>

\* add_referral: get_user and the membership test
add_referral_get_user(p, user_id, referral_id) ==
    LET user == get_user(usersDb, user_id) IN
    /\ Begin(p)
    /\ IF IsNone(user) \/ referral_id \in SeqToSet(Val(user).referrals)
       THEN Done(p, "unchanged", 0)
       ELSE Goto(p, [Idle EXCEPT !.pc = "referral_load",
                                 !.args.now = user_id,
                                 !.rec = Some([Val(user) EXCEPT !.referrals =
                                                  Append(@, referral_id)])])
    /\ UNCHANGED <<ordersDb, usersDb, commandsDb, Rest>>

\* get_users of save_user
save_user_load(p) ==
    LET l == procs[p] IN
    /\ At(p, {"bonus_load", "stats_load", "referral_load"})
    /\ Goto(p, [l EXCEPT !.pc = CASE l.pc = "bonus_load" -> "bonus_save"
                                  [] l.pc = "stats_load" -> "stats_save"
                                  [] OTHER -> "referral_save",
                         !.udata = Some(usersDb)])
    /\ UNCHANGED <<ordersDb, usersDb, commandsDb, calls, Rest>>

\* save_users of save_user; args.now holds the id the record is saved under
save_user_save(p) ==
    LET l == procs[p] IN
    /\ At(p, {"bonus_save", "stats_save", "referral_save"})
    /\ usersDb' = save_user(Val(l.udata), l.args.now, Val(l.rec))
    /\ IF l.pc = "bonus_save"
       THEN Goto(p, [l EXCEPT !.pc = "stats_user", !.udata = None, !.rec = None])
       ELSE IF l.pc = "stats_save" THEN Done(p, "completed", l.args.order_id)
       ELSE Done(p, "referral_added", 0)
    /\ UNCHANGED <<ordersDb, commandsDb, calls, Rest>>

\* add_custom_command up to its save_commands
add_custom_command_load(p, command, response) ==
    /\ Begin(p)
    /\ Goto(p, [Idle EXCEPT !.pc = "command_add_save",
                            !.args = [NoArgs EXCEPT !.name = command,
                                                    !.text = response],
                            !.cdata = Some(commandsDb)])
    /\ UNCHANGED <<ordersDb, usersDb, commandsDb, Rest>>

\* remove_custom_command up to its save_commands
remove_custom_command_load(p, command) ==
    /\ Begin(p)
    /\ IF Len(KeepOther(commandsDb, command)) < Len(commandsDb)
       THEN Goto(p, [Idle EXCEPT !.pc = "command_remove_save",
                                 !.args = [NoArgs EXCEPT !.name = command],
                                 !.cdata = Some(commandsDb)])
       ELSE Done(p, "no_command", 0)
    /\ UNCHANGED <<ordersDb, usersDb, commandsDb, Rest>>

\* save_commands of either
save_commands(p) ==
    LET l == procs[p] IN
    /\ At(p, {"command_add_save", "command_remove_save"})
    /\ commandsDb' = IF l.pc = "command_add_save"
                     THEN AddedCommands(Val(l.cdata), l.args.name, l.args.text)
                     ELSE KeepOther(Val(l.cdata), l.args.name)
    /\ Done(p, IF l.pc = "command_add_save" THEN "command_saved"
               ELSE "command_removed", 0)
    /\ UNCHANGED <<ordersDb, usersDb, calls, Rest>>

\* the handler returned; its locals are gone
return(p) ==
    /\ At(p, {"done"})
    /\ Goto(p, Idle)
    /\ UNCHANGED <<ordersDb, usersDb, commandsDb, calls, Rest>>

Referrals == {<<3, 1>>, <<3, 2>>}

ConcNext ==
    \E p \in Procs :
        \/ \E in \in OrderInputs : create_order_load(p, in[1], in[2], in[3])
        \/ create_order_save(p)
        \/ \E u \in Callers, o \in OrderIds : take_get_order(p, u, o)
        \/ \E u \in Callers, o \in OrderIds : complete_get_order(p, u, o)
        \/ update_order_load(p)
        \/ take_save(p)
        \/ complete_save(p)
        \/ \E d \in BOOLEAN : notify(p, d)
        \/ bonus_get_user(p)
        \/ bonus_get_referrer(p)
        \/ stats_get_user(p)
        \/ \E r \in Referrals : add_referral_get_user(p, r[1], r[2])
        \/ save_user_load(p)
        \/ save_user_save(p)
        \/ \E c \in CommandNames, r \in Responses : add_custom_command_load(p, c, r)
        \/ \E c \in CommandNames : remove_custom_command_load(p, c)
        \/ save_commands(p)
        \/ return(p)

ConcSpec == Init /\ [][ConcNext]_vars

\* ------------------------------------- get_referral_percentage on its own
MaxCount == 110
Counts == (0 .. MaxCount) \cup {1000}

PctInit ==
    /\ Stores
    /\ reply = Answer("started", 0)
    /\ procs = [p \in Procs |-> Idle]
    /\ calls = 0
    /\ probe \in {[n |-> n, out |-> None] : n \in Counts}
    /\ defaults = DEFAULT_CONFIG
    /\ locks = Unlocked

\* user_profile asks for the percentage of a user with probe.n referrals
user_profile ==
    /\ IsNone(probe.out)
    /\ probe' = [probe EXCEPT !.out = Some(get_referral_percentage(config, probe.n))]
    /\ UNCHANGED <<config, usersDb, ordersDb, commandsDb, reply, procs, calls,
                   defaults, locks>>

PctNext == user_profile

PctSpec == PctInit /\ [][PctNext]_vars

\* ------------------------------------------------------ lifecycle properties
Stored == ordersDb.orders

\* order i of the stored list went from status a to status b in this step
Moved(i, a, b) ==
    /\ i \in DOMAIN Stored /\ i \in DOMAIN Stored'
    /\ Stored[i].status = a /\ Stored'[i].status = b

Completing(i) ==
    /\ i \in DOMAIN Stored /\ i \in DOMAIN Stored'
    /\ Stored[i].status # "completed" /\ Stored'[i].status = "completed"

\* C1: every stored order stays stored under its id, a new order starts
\* active, and a status changes only active -> in_progress or
\* in_progress -> completed, so a completed order was in_progress before
C1_StatusChain ==
    [][\A i \in DOMAIN Stored' :
          IF i \in DOMAIN Stored
          THEN /\ Stored'[i].id = Stored[i].id
               /\ \/ Stored'[i].status = Stored[i].status
                  \/ Moved(i, "active", "in_progress")
                  \/ Moved(i, "in_progress", "completed")
          ELSE Stored'[i].status = "active"]_vars

C1_Witness ==
    /\ reply.answer = "completed"
    /\ \E i \in DOMAIN Stored : Stored[i].status = "completed"
    /\ \E i \in DOMAIN Stored : Stored[i].status = "active"

\* C2: a complete request for a stored order that is not in_progress changes
\* neither the orders nor the users document, and an operator who sends it is
\* answered that the order is not in progress
C2_CompleteRejected ==
    [][\A u \in Callers, o \in OrderIds, d \in BOOLEAN :
          ( /\ operator_complete_order(u, o, d)
            /\ ~IsNone(get_order(ordersDb, o))
            /\ Val(get_order(ordersDb, o)).status # "in_progress" )
          => /\ ordersDb' = ordersDb
             /\ usersDb' = usersDb
             /\ check_operator(usersDb, config, u)
                    => reply'.answer = "not_in_progress"]_vars

C2_Witness ==
    /\ reply.answer = "not_in_progress"
    /\ Stored # <<>>
    /\ \A i \in DOMAIN Stored : Stored[i].status = "active"

\* C4: a stored order whose status is completed is the same record after
\* every step: status, spread, completed_at and the operator fields stay
C4_CompletedTerminal ==
    [][\A i \in DOMAIN Stored :
          Stored[i].status = "completed"
          => i \in DOMAIN Stored' /\ Stored'[i] = Stored[i]]_vars

C4_Witness ==
    /\ reply.answer = "not_active"
    /\ Stored # <<>>
    /\ \A i \in DOMAIN Stored : Stored[i].status = "completed"

\* 'Z' and the identifier in five decimal digits
ZNumber(k) ==
    <<"Z", (k \div 10000) % 10, (k \div 1000) % 10, (k \div 100) % 10,
      (k \div 10) % 10, k % 10>>

\* C5: the k-th order created has id k and number Z followed by k in five
\* digits, the call that created it returned k, and ids are strictly
\* increasing and numbers pairwise different in the stored list
C5_SequentialIds ==
    /\ \A k \in DOMAIN Stored :
          Stored[k].id = k /\ Stored[k].order_number = ZNumber(k)
    /\ reply.answer = "created" => reply.id = Len(Stored)
    /\ \A i, j \in DOMAIN Stored :
          i < j => /\ Stored[i].id < Stored[j].id
                   /\ Stored[i].order_number # Stored[j].order_number

C5_Witness ==
    /\ Len(Stored) = 3
    /\ reply = Answer("created", 3)
    /\ Stored[3].order_number = <<"Z", 0, 0, 0, 0, 3>>
    /\ Stored[1].order_type # Stored[3].order_type
    /\ Stored[1].amount # Stored[3].amount

\* ---------------------------------------------------- concurrency properties
Taken(p) ==
    /\ procs[p].pc = "take_save"
    /\ procs'[p].pc = "done"

Created(p) ==
    /\ procs[p].pc = "done"
    /\ Val(procs[p].ret).answer = "created"

Steps(p) == procs'[p] # procs[p]

TierPercentage(cfg, n) ==
    LET levels == cfg.referral.levels
        hit == {i \in DOMAIN levels : InLevel(levels[i], n)}
    IN  levels[CHOOSE i \in hit : TRUE].percentage

HasReferrer(user_id) ==
    /\ user_id \in DOMAIN usersDb
    /\ ~IsNone(usersDb[user_id].referrer_id)
    /\ Val(usersDb[user_id].referrer_id) \in DOMAIN usersDb

\* C8: when an order is completed with spread > 0, its owner has a stored
\* referrer and the notifications went out, the referrer's balance grows by
\* spread * percentage / 100 for the tier of the referrer's referral count
C8_BonusAmount ==
    [][\A i \in DOMAIN Stored :
          ( /\ Completing(i)
            /\ Val(Stored'[i].spread) > 0
            /\ HasReferrer(Stored[i].user_id)
            /\ usersDb'[Stored[i].user_id].completed_orders
                    = usersDb[Stored[i].user_id].completed_orders + 1 )
          => LET r == Val(usersDb[Stored[i].user_id].referrer_id)
                 pct == TierPercentage(config, Len(usersDb[r].referrals))
             IN  usersDb'[r].balance = usersDb[r].balance
                    + MulDiv(Val(Stored'[i].spread), pct, Scale) \div 100]_vars

\* C10: get_referral_percentage(n) is the percentage of the tier whose
\* inclusive range holds n (10 -> 10, 11 -> 12.5, 1000 -> 20), and the
\* default floor when no tier holds n (n = 0)
C10_TierPercentage ==
    (probe # None /\ ~IsNone(probe.out))
    => LET levels == config.referral.levels
           n == probe.n
       IN  /\ (\E i \in DOMAIN levels : InLevel(levels[i], n))
                 => Val(probe.out) = TierPercentage(config, n)
           /\ (\A i \in DOMAIN levels : ~InLevel(levels[i], n))
                 => Val(probe.out) = DefaultFloor
           /\ n = 10 => Val(probe.out) = F(10)
           /\ n = 11 => Val(probe.out) = 12500
           /\ n = 1000 => Val(probe.out) = F(20)

\* C9: completing an order whose owner has no referrer leaves every balance
\* of the users document as it was
C9_NoReferrerNoBalanceChange ==
    [][\A i \in DOMAIN Stored :
          ( /\ Completing(i)
            /\ Stored[i].user_id \in DOMAIN usersDb
            /\ IsNone(usersDb[Stored[i].user_id].referrer_id) )
          => /\ DOMAIN usersDb' = DOMAIN usersDb
             /\ \A v \in DOMAIN usersDb :
                    usersDb'[v].balance = usersDb[v].balance]_vars

C9_Witness ==
    /\ reply.answer = "completed"
    /\ usersDb[2].completed_orders >= 1
    /\ \E i \in DOMAIN Stored :
          /\ Stored[i].user_id = 2 /\ Stored[i].status = "completed"
          /\ Val(Stored[i].spread) > 0

\* ------------------------------------------------- the configuration file
\* what is left of config.json when json.load raises on it
Unreadable == [unreadable |-> TRUE]

\* config.json does not exist
Missing == [missing |-> TRUE]

\* what load_config returns: the parsed file, or DEFAULT_CONFIG.copy() when
\* reading it raises or there is no file; the copy is shallow, so its nested
\* lists and dicts are the ones of DEFAULT_CONFIG itself
load_config(file, mem) == IF file \in {Unreadable, Missing} THEN mem ELSE file

\* how the write of save_config ends: done, refused by open(), or raised by
\* json.dump after open() emptied the file; both exceptions are only logged
WriteOutcomes == {"written", "refused", "truncated"}

\* the file after save_config(cfg)
save_config(file, cfg, outcome) ==
    CASE outcome = "written" -> cfg
      [] outcome = "refused" -> file
      [] OTHER -> Unreadable

\* the file after load_config: a missing file is created from the default
loaded_file(file, mem, outcome) ==
    IF file = Missing THEN save_config(file, mem, outcome) ELSE file

\* DEFAULT_CONFIG after a caller of load_config changed a nested object of
\* what it got, cfg being the result of the change
Aliased(file, mem, cfg) == IF file \in {Unreadable, Missing} THEN cfg ELSE mem

\* what the configuration handlers leave alone
Databases == <<usersDb, ordersDb, commandsDb, procs, calls, probe, locks>>

\* ------------------------------------------------------ referral settings
MaxLevels == 2

\* the ranges and percentages an admin types: "min-max:percentage"
LevelRanges == {<<1, Some(2)>>, <<1, INF>>, <<3, Some(5)>>, <<3, INF>>,
                <<6, INF>>, <<6, Some(2)>>}
LevelPercentages == {F(5), F(10), F(20)}

ParsedLevels ==
    {[min |-> r[1], max |-> r[2], percentage |-> pc] :
        r \in LevelRanges, pc \in LevelPercentages}

\* the level lists the handler parses out of a message
LevelLists == UNION {[1 .. k -> ParsedLevels] : k \in 0 .. MaxLevels}

RECURSIVE InsertByMin(_, _)
InsertByMin(sorted, level) ==
    IF sorted = <<>> THEN <<level>>
    ELSE IF Head(sorted).min <= level.min
    THEN <<Head(sorted)>> \o InsertByMin(Tail(sorted), level)
    ELSE <<level>> \o sorted

\* sorted(levels, key=lambda x: x["min"]), a stable sort
RECURSIVE SortByMin(_)
SortByMin(levels) ==
    IF levels = <<>> THEN <<>>
    ELSE InsertByMin(SortByMin(SubSeq(levels, 1, Len(levels) - 1)),
                     levels[Len(levels)])

\* sorted_levels[i]["min"] <= sorted_levels[i-1]["max"] for some i
Overlapping(sorted_levels) ==
    \E i \in 2 .. Len(sorted_levels) :
        \/ sorted_levels[i - 1].max = INF
        \/ sorted_levels[i].min <= Val(sorted_levels[i - 1].max)

update_referral_settings(levels) ==
    LET sorted_levels == SortByMin(levels)
        loaded == load_config(config, defaults)
        changed == [loaded EXCEPT !.referral.levels = sorted_levels]
    IN
    IF levels = <<>> \/ Overlapping(sorted_levels)
    THEN /\ reply' = Answer("referral_error", 0)
         /\ UNCHANGED <<config, defaults, Databases>>
    ELSE /\ config' = save_config(config, changed, "written")
         /\ defaults' = Aliased(config, defaults, changed)
         /\ reply' = Answer("referral_updated", 0)
         /\ UNCHANGED Databases

ReferralNext == \E levels \in LevelLists : update_referral_settings(levels)

ReferralSpec == Init /\ [][ReferralNext]_vars

\* C11: the stored referral tiers are sorted ascending by min, one of them is
\* open-ended, and every referral count n >= 1 lies in exactly one tier
C11_TiersPartition ==
    LET levels == config.referral.levels IN
    /\ \A i \in 1 .. Len(levels) - 1 : levels[i].min < levels[i + 1].min
    /\ \E i \in DOMAIN levels : levels[i].max = INF
    /\ \A n \in Counts \ {0} :
          Cardinality({i \in DOMAIN levels : InLevel(levels[i], n)}) = 1

\* ------------------------------------------- orders while the rates change
MaxPlaced == 1

\* what users send to process_order_creation:
\* <<user_id, order_type, currency, amount>>
PlacedInputs == {<<1, "buy", "usd", F(80)>>, <<2, "sell", "rub", F(500)>>,
                 <<2, "sell", "rub", 0>>}

\* get_current_rates
get_current_rates(file, mem) == load_config(file, mem).rates

\* the configuration update_rates saves, given the one it loaded
update_rates(cfg, ltc_usd_buy, ltc_usd_sell, usd_rub_buy, usd_rub_sell) ==
    [cfg EXCEPT !.rates.ltc_usd_buy = ltc_usd_buy,
                !.rates.ltc_usd_sell = ltc_usd_sell,
                !.rates.usd_rub_buy = usd_rub_buy,
                !.rates.usd_rub_sell = usd_rub_sell]

process_order_creation(user_id, order_type, currency, amount) ==
    LET rates == get_current_rates(config, defaults)
        rubles_amount ==
            IF currency = "usd"
            THEN MulDiv(amount, IF order_type = "buy" THEN rates.usd_rub_buy
                                ELSE rates.usd_rub_sell, Scale)
            ELSE amount
    IN
    /\ Len(ordersDb.orders) < MaxPlaced
    /\ IF amount <= 0
       THEN /\ reply' = Answer("bad_amount", 0)
            /\ UNCHANGED ordersDb
       ELSE /\ ordersDb' = CreatedDoc(ordersDb, user_id, order_type, rubles_amount)
            /\ reply' = Answer("created", ordersDb.next_id)
    /\ UNCHANGED <<config, usersDb, Concurrent>>

\* the four numbers an admin sends while the bot waits for rates
RateInputs == {<<F(80), F(78), F(75), F(72)>>, <<F(80), F(78), F(75), 0>>,
               <<F(80), F(78), 73500, F(72)>>}

RateCallers == {4, ADMIN_ID}

admin_handle_rates_input(user_id, values) ==
    LET loaded == load_config(config, defaults)
        changed == update_rates(loaded, values[1], values[2], values[3], values[4])
    IN
    IF ~check_admin(usersDb, loaded, user_id)
    THEN /\ reply' = Answer("no_rights", 0)
         /\ UNCHANGED <<config, defaults, Databases>>
    ELSE IF \E i \in 1 .. 4 : values[i] <= 0
    THEN /\ reply' = Answer("rates_not_positive", 0)
         /\ UNCHANGED <<config, defaults, Databases>>
    ELSE /\ config' = save_config(config, changed, "written")
         /\ defaults' = Aliased(config, defaults, changed)
         /\ reply' = Answer("rates_updated", 0)
         /\ UNCHANGED Databases

RatesNext ==
    \/ \E in \in PlacedInputs : process_order_creation(in[1], in[2], in[3], in[4])
    \/ \E u \in Callers, o \in 1 .. MaxPlaced : operator_take_order(u, o)
    \/ \E u \in Callers, o \in 1 .. MaxPlaced, d \in BOOLEAN :
            operator_complete_order(u, o, d)
    \/ \E u \in RateCallers, values \in RateInputs :
            admin_handle_rates_input(u, values)

RatesSpec == Init /\ [][RatesNext]_vars

\* the absolute difference between a fiat amount and the value of the same
\* crypto amount at the opposite direction's rate
SpreadFor(rates, amount, order_type) ==
    LET buy_value == MulDiv(rates.ltc_usd_buy, rates.usd_rub_buy, Scale)
        sell_value == MulDiv(rates.ltc_usd_sell, rates.usd_rub_sell, Scale)
        own == IF order_type = "buy" THEN buy_value ELSE sell_value
        opposite == IF order_type = "buy" THEN sell_value ELSE buy_value
        valuation == MulDiv(amount, opposite, own)
    IN  IF amount >= valuation THEN amount - valuation ELSE valuation - amount

\* C12: the spread stored by a completion is the spread of the order's
\* amount and direction under the rates the config holds at that step, to
\* two decimals
C12_LiveRates ==
    [][\A i \in DOMAIN Stored :
          Completing(i)
          => Stored'[i].spread =
                Some(Round2(SpreadFor(config.rates, Stored[i].amount,
                                      Stored[i].order_type)))]_vars

\* an order of 80 USD placed at 73.5 (5880 rubles) was completed after the
\* USD rate went to 75, and carries the spread of the new rates
C12_Witness ==
    /\ reply.answer = "completed"
    /\ config.rates.usd_rub_buy = F(75)
    /\ \E i \in DOMAIN Stored :
          /\ Stored[i].amount = F(5880) /\ Stored[i].status = "completed"
          /\ Stored[i].spread = Some(376320)
          /\ Stored[i].spread # Some(calculate_spread(StartConfig, F(5880), "buy"))

\* config.get("min_amount", 1000.0)
get_min_amount(file, mem) ==
    LET loaded == load_config(file, mem) IN
    IF "min_amount" \in DOMAIN loaded THEN loaded.min_amount ELSE F(1000)

\* C17: a step that stores an order or consumes an identifier stores an
\* order whose amount is at least the minimum the config holds at that step,
\* so every stored order was at or above the minimum when it was created
C17_MinimumAmount ==
    [][(Len(Stored') > Len(Stored) \/ ordersDb'.next_id # ordersDb.next_id)
          => /\ Len(Stored') = Len(Stored) + 1
             /\ Stored'[Len(Stored')].amount >= get_min_amount(config, defaults)
      ]_vars

\* ------------------------------------- the two spread functions on their own
\* models/rates.calculate_spread; rub_amount / rate * rate is taken as one
\* exact quotient
rates_calculate_spread(rub_amount, is_buy, rates) ==
    LET buy_value == MulDiv(rates.ltc_usd_buy, rates.usd_rub_buy, Scale)
        sell_value == MulDiv(rates.ltc_usd_sell, rates.usd_rub_sell, Scale)
        own == IF is_buy THEN buy_value ELSE sell_value
        buy_price == MulDiv(rub_amount, IF is_buy THEN sell_value ELSE buy_value, own)
        sell_price == MulDiv(rub_amount, own, own)
    IN  IF sell_price >= buy_price THEN sell_price - buy_price
        ELSE buy_price - sell_price

\* positive rate sets, the default one among them
SpreadRates ==
    {[ltc_usd_buy |-> a, ltc_usd_sell |-> b, usd_rub_buy |-> c, usd_rub_sell |-> d] :
        a \in {F(80), F(70)}, b \in {F(78), F(82)}, c \in {73500, F(75)},
        d \in {F(72)}}

SpreadAmounts == {F(5880), F(1000), F(500), F(120)}

SpreadInit ==
    /\ config \in {[StartConfig EXCEPT !.rates = r] : r \in SpreadRates}
    /\ usersDb = InitUsers
    /\ ordersDb = EmptyOrders
    /\ commandsDb = <<>>
    /\ reply = Answer("started", 0)
    /\ procs = [p \in Procs |-> Idle]
    /\ calls = 0
    /\ probe \in {[amount |-> a, order_type |-> t, out |-> None] :
                    a \in SpreadAmounts, t \in OrderTypes}
    /\ defaults = DEFAULT_CONFIG
    /\ locks = Unlocked

\* both functions applied to the amount and direction of the probe under
\* the stored rates
spread_of_probe ==
    /\ IsNone(probe.out)
    /\ probe' = [probe EXCEPT !.out =
            Some([helpers |-> calculate_spread(config, probe.amount, probe.order_type),
                  rates |-> rates_calculate_spread(probe.amount,
                                probe.order_type = "buy",
                                get_current_rates(config, defaults))])]
    /\ UNCHANGED <<config, usersDb, ordersDb, commandsDb, reply, procs, calls,
                   defaults, locks>>

SpreadNext == spread_of_probe

SpreadSpec == SpreadInit /\ [][SpreadNext]_vars

\* C13: under positive rates both spread functions return the absolute
\* difference between the amount and its valuation at the opposite
\* direction's rate (helpers to two decimals), never a negative number, and
\* 264 for a 5880 buy at the rates 80, 78, 73.5, 72
C13_AbsoluteSpread ==
    (probe # None /\ ~IsNone(probe.out))
    => LET expected == SpreadFor(config.rates, probe.amount, probe.order_type)
           out == Val(probe.out)
       IN  /\ out.helpers = Round2(expected)
           /\ out.rates = expected
           /\ out.helpers >= 0 /\ out.rates >= 0
           /\ ( /\ config.rates = DEFAULT_CONFIG.rates
                /\ probe.amount = F(5880) /\ probe.order_type = "buy" )
              => out.helpers = F(264) /\ out.rates = F(264)

\* C14: a stored order carries a spread only when it is completed, and
\* carries no operator id and no operator name while it is active
C14_NullUntilSet ==
    \A i \in DOMAIN Stored :
        /\ Stored[i].status # "completed" => IsNone(Stored[i].spread)
        /\ Stored[i].status = "active"
              => /\ IsNone(Stored[i].operator_id)
                 /\ IsNone(Stored[i].operator_username)

C14_Witness ==
    \E i, j, k \in DOMAIN Stored :
        /\ Stored[i].status = "active"
        /\ Stored[j].status = "in_progress" /\ ~IsNone(Stored[j].operator_id)
        /\ IsNone(Stored[j].spread)
        /\ Stored[k].status = "completed" /\ ~IsNone(Stored[k].spread)
        /\ ~IsNone(Stored[k].operator_username)

\* --------------------------------------------- every way to change the rates
RateTypes == {"ltc_usd_buy", "ltc_usd_sell", "usd_rub_buy", "usd_rub_sell"}

\* the numbers an admin types for a single rate
RateValues == {F(75), 0, 0 - F(5)}

\* handle_admin_message in state waiting_rates
handle_admin_message_waiting_rates(user_id, values) ==
    LET loaded == load_config(config, defaults)
        changed == update_rates(loaded, values[1], values[2], values[3], values[4])
    IN
    IF ~check_admin(usersDb, loaded, user_id)
    THEN /\ reply' = Answer("no_rights", 0)
         /\ UNCHANGED <<config, defaults, Databases>>
    ELSE /\ config' = save_config(config, changed, "written")
         /\ defaults' = Aliased(config, defaults, changed)
         /\ reply' = Answer("rates_updated", 0)
         /\ UNCHANGED Databases

\* handle_admin_message in state manual_rate_input, a number being sent
handle_admin_message_manual_rate_input(user_id, rate_type, new_value) ==
    LET loaded == load_config(config, defaults)
        rates == get_current_rates(config, defaults)
        changed ==
            update_rates(loaded,
                IF rate_type = "ltc_usd_buy" THEN new_value ELSE rates.ltc_usd_buy,
                IF rate_type = "ltc_usd_sell" THEN new_value ELSE rates.ltc_usd_sell,
                IF rate_type = "usd_rub_buy" THEN new_value ELSE rates.usd_rub_buy,
                IF rate_type = "usd_rub_sell" THEN new_value ELSE rates.usd_rub_sell)
    IN
    IF ~check_admin(usersDb, loaded, user_id)
    THEN /\ reply' = Answer("no_rights", 0)
         /\ UNCHANGED <<config, defaults, Databases>>
    ELSE /\ config' = save_config(config, changed, "written")
         /\ defaults' = Aliased(config, defaults, changed)
         /\ reply' = Answer("rate_updated", 0)
         /\ UNCHANGED Databases

RateInputNext ==
    \/ \E u \in RateCallers, values \in RateInputs :
            admin_handle_rates_input(u, values)
    \/ \E u \in RateCallers, values \in RateInputs :
            handle_admin_message_waiting_rates(u, values)
    \/ \E u \in RateCallers, t \in RateTypes, v \in RateValues :
            handle_admin_message_manual_rate_input(u, t, v)

RateInputSpec == Init /\ [][RateInputNext]_vars

\* C16: the four stored rates are all greater than zero
C16_PositiveRates ==
    \A t \in RateTypes : config.rates[t] > 0

\* -------------------------------------------------- admin and operator lists
AdminTargets == {2, ADMIN_ID}
OperatorTargets == {4}

\* list.remove(x): the list without its first x
RECURSIVE RemoveFirst(_, _)
RemoveFirst(list, x) ==
    IF list = <<>> THEN <<>>
    ELSE IF Head(list) = x THEN Tail(list)
    ELSE <<Head(list)>> \o RemoveFirst(Tail(list), x)

\* a config function that found nothing to change: no write, no log line
Kept(a) ==
    /\ reply' = Answer(a, 0)
    /\ UNCHANGED <<config, defaults, Databases>>

\* a config function that changed a list of the loaded config and saved it
Saved(changed, outcome, a) ==
    /\ config' = save_config(config, changed, outcome)
    /\ defaults' = Aliased(config, defaults, changed)
    /\ reply' = Answer(a, 0)
    /\ UNCHANGED Databases

add_admin_unchecked(user_id, outcome) ==
    LET loaded == load_config(config, defaults) IN
    Saved([loaded EXCEPT !.admin_ids = Append(@, user_id)], outcome, "admin_added")

add_admin(user_id, outcome) ==
    LET loaded == load_config(config, defaults) IN
    IF user_id \notin SeqToSet(loaded.admin_ids)
    THEN Saved([loaded EXCEPT !.admin_ids = Append(@, user_id)], outcome,
               "admin_added")
    ELSE Kept("admin_kept")

remove_admin(user_id, outcome) ==
    LET loaded == load_config(config, defaults) IN
    IF user_id \in SeqToSet(loaded.admin_ids)
    THEN Saved([loaded EXCEPT !.admin_ids = RemoveFirst(@, user_id)], outcome,
               "admin_removed")
    ELSE Kept("admin_absent")

add_operator(user_id, outcome) ==
    LET loaded == load_config(config, defaults) IN
    IF user_id \notin SeqToSet(loaded.operator_ids)
    THEN Saved([loaded EXCEPT !.operator_ids = Append(@, user_id)], outcome,
               "operator_added")
    ELSE Kept("operator_kept")

remove_operator(user_id, outcome) ==
    LET loaded == load_config(config, defaults) IN
    IF user_id \in SeqToSet(loaded.operator_ids)
    THEN Saved([loaded EXCEPT !.operator_ids = RemoveFirst(@, user_id)], outcome,
               "operator_removed")
    ELSE Kept("operator_absent")

\* config.json is damaged or deleted behind the bot's back
config_file_lost(what) ==
    /\ config \notin {Unreadable, Missing}
    /\ config' = what
    /\ reply' = Answer("file_lost", 0)
    /\ UNCHANGED <<defaults, Databases>>

\* a call of load_config on its own; the probe keeps the file it met and
\* what it returned
load_config_call(outcome) ==
    /\ probe' = [file |-> config, out |-> load_config(config, defaults)]
    /\ config' = loaded_file(config, defaults, outcome)
    /\ reply' = Answer("loaded", 0)
    /\ UNCHANGED <<defaults, usersDb, ordersDb, commandsDb, procs, calls, locks>>

ConfigNext ==
    \/ \E u \in AdminTargets, oc \in WriteOutcomes : add_admin(u, oc)
    \/ \E u \in AdminTargets, oc \in WriteOutcomes : remove_admin(u, oc)
    \/ \E u \in OperatorTargets, oc \in WriteOutcomes : add_operator(u, oc)
    \/ \E u \in OperatorTargets, oc \in WriteOutcomes : remove_operator(u, oc)
    \/ \E what \in {Unreadable, Missing} : config_file_lost(what)
    \/ \E oc \in WriteOutcomes : load_config_call(oc)

ConfigSpec == Init /\ [][ConfigNext]_vars

\* C18: a load_config that meets an unreadable file returns the default
\* configuration and leaves the file as it was
C18_FallbackKeepsFile ==
    [][(probe' # probe /\ config = Unreadable)
          => /\ probe'.out = DEFAULT_CONFIG
             /\ config' = config]_vars

NoDuplicates(list) ==
    \A i, j \in DOMAIN list : list[i] = list[j] => i = j

\* the lists a caller of load_config sees
AdminIds == load_config(config, defaults).admin_ids
OperatorIds == load_config(config, defaults).operator_ids

\* C20: adding an identifier that is in the list, or removing one that is
\* not, changes neither the file nor the lists, and after every step each
\* identifier occurs at most once in admin_ids and in operator_ids
C20_IdempotentLists ==
    [][/\ \A oc \in WriteOutcomes :
            /\ \A u \in AdminTargets :
                 /\ (add_admin(u, oc) /\ u \in SeqToSet(AdminIds))
                        => UNCHANGED <<config, defaults>>
                 /\ (remove_admin(u, oc) /\ u \notin SeqToSet(AdminIds))
                        => UNCHANGED <<config, defaults>>
            /\ \A u \in OperatorTargets :
                 /\ (add_operator(u, oc) /\ u \in SeqToSet(OperatorIds))
                        => UNCHANGED <<config, defaults>>
                 /\ (remove_operator(u, oc) /\ u \notin SeqToSet(OperatorIds))
                        => UNCHANGED <<config, defaults>>
       /\ NoDuplicates(AdminIds') /\ NoDuplicates(OperatorIds')]_vars

\* the super-admin, in the list since the start, was added again after
\* user 2, and so was operator 4
C20_Witness ==
    /\ reply.answer \in {"admin_kept", "operator_kept"}
    /\ AdminIds = <<ADMIN_ID, 2>>
    /\ OperatorIds = <<4>>

\* ------------------------------------------------ admin changes of a balance
MaxBalanceSteps == 4
BalanceStep == F(50)

BalanceTargets == {1, 2, ADMIN_ID}
BalanceOperations == {"add", "subtract"}

\* the amounts an admin types, with and without a sign
BalanceAmounts == {F(50), F(100), 0}
BalanceChanges == {F(50), 0 - F(50), 0 - F(100)}

\* a balance handler that refuses: nothing is written
Refused(a) ==
    /\ reply' = Answer(a, 0)
    /\ UNCHANGED <<config, usersDb, ordersDb, Concurrent>>

\* user["balance"] = new_balance and save_user
BalanceSaved(target_user_id, new_balance, a) ==
    /\ new_balance <= MaxBalanceSteps * BalanceStep
    /\ usersDb' = save_user(usersDb, target_user_id,
                    [usersDb[target_user_id] EXCEPT !.balance = new_balance])
    /\ reply' = Answer(a, 0)
    /\ UNCHANGED <<config, ordersDb, Concurrent>>

admin_handle_balance_operation_unchecked(user_id, operation, target_user_id, amount) ==
    LET user == get_user(usersDb, target_user_id) IN
    IF ~check_admin(usersDb, load_config(config, defaults), user_id)
    THEN Refused("no_rights")
    ELSE IF amount <= 0 THEN Refused("amount_not_positive")
    ELSE IF IsNone(user) THEN Refused("user_not_found")
    ELSE IF operation = "add"
    THEN BalanceSaved(target_user_id, Val(user).balance + amount, "balance_changed")
    ELSE BalanceSaved(target_user_id, Val(user).balance - amount, "balance_changed")

admin_handle_balance_operation(user_id, operation, target_user_id, amount) ==
    LET user == get_user(usersDb, target_user_id) IN
    IF ~check_admin(usersDb, load_config(config, defaults), user_id)
    THEN Refused("no_rights")
    ELSE IF amount <= 0 THEN Refused("amount_not_positive")
    ELSE IF IsNone(user) THEN Refused("user_not_found")
    ELSE IF operation = "add"
    THEN BalanceSaved(target_user_id, Val(user).balance + amount, "balance_changed")
    ELSE IF Val(user).balance < amount THEN Refused("insufficient_balance")
    ELSE BalanceSaved(target_user_id, Val(user).balance - amount, "balance_changed")

\* handle_admin_message in state waiting_for_balance_change
handle_admin_message_balance_change(user_id, target_user_id, amount) ==
    LET user == get_user(usersDb, target_user_id) IN
    IF ~check_admin(usersDb, load_config(config, defaults), user_id)
    THEN Refused("no_rights")
    ELSE IF IsNone(user) THEN Refused("user_not_found")
    ELSE IF Val(user).balance + amount < 0 THEN Refused("negative_balance")
    ELSE BalanceSaved(target_user_id, Val(user).balance + amount, "balance_changed")

BalanceNext ==
    \/ \E u \in RateCallers, o \in BalanceOperations, t \in BalanceTargets,
          a \in BalanceAmounts : admin_handle_balance_operation(u, o, t, a)
    \/ \E u \in RateCallers, t \in BalanceTargets, a \in BalanceChanges :
            handle_admin_message_balance_change(u, t, a)

BalanceSpec == Init /\ [][BalanceNext]_vars

\* C19: no stored balance is negative, and on either admin path a debit
\* larger than the user's balance leaves the users document as it was
C19_BalanceNotNegative ==
    [][/\ \A v \in DOMAIN usersDb' : usersDb'[v].balance >= 0
       /\ \A u \in RateCallers, t \in DOMAIN usersDb :
            /\ \A a \in BalanceAmounts :
                 ( /\ admin_handle_balance_operation(u, "subtract", t, a)
                   /\ usersDb[t].balance < a )
                 => usersDb' = usersDb
            /\ \A a \in BalanceChanges :
                 ( /\ handle_admin_message_balance_change(u, t, a)
                   /\ usersDb[t].balance + a < 0 )
                 => usersDb' = usersDb]_vars

\* user 1 holds 50 after a credit, and a larger debit was just refused
C19_Witness ==
    /\ reply.answer \in {"insufficient_balance", "negative_balance"}
    /\ usersDb[1].balance = F(50)
    /\ usersDb[2].balance = 0

\* ------------------------------------------------- writes that can fail
\* get_orders and get_users: the parsed file, or the empty document when
\* reading it raises
get_orders(file) == IF file = Unreadable THEN EmptyOrders ELSE file
get_users(file) == IF file = Unreadable THEN <<>> ELSE file

\* the file after save_orders or save_users; as in save_config the
\* exception is only logged
save_document(file, data, outcome) ==
    CASE outcome = "written" -> data
      [] outcome = "refused" -> file
      [] OTHER -> Unreadable

\* create_order, its write ending in any of the three ways
create_order_write(user_id, order_type, amount, outcome) ==
    LET orders_data == get_orders(ordersDb) IN
    /\ Len(orders_data.orders) < MaxPlaced
    /\ ordersDb' = save_document(ordersDb,
                        CreatedDoc(orders_data, user_id, order_type, amount),
                        outcome)
    /\ reply' = Answer("created", orders_data.next_id)
    /\ UNCHANGED <<config, usersDb, Concurrent>>

\* operator_take_order, the write of its update_order ending in any way
operator_take_order_write(user_id, order_id, outcome) ==
    LET orders_data == get_orders(ordersDb)
        order == get_order(orders_data, order_id)
    IN
    IF ~check_operator(get_users(usersDb), load_config(config, defaults), user_id)
    THEN Reject("no_rights", order_id)
    ELSE IF IsNone(order) THEN Reject("not_found", order_id)
    ELSE IF Val(order).status # "active" THEN Reject("not_active", order_id)
    ELSE
        /\ ordersDb' = save_document(ordersDb,
                            UpdatedDoc(orders_data, order_id, TakeUpdates(user_id)),
                            outcome)
        /\ reply' = Answer("taken", 0)
        /\ UNCHANGED <<config, usersDb, Concurrent>>

\* the credit branch of admin_handle_balance_operation, the write of its
\* save_user ending in any way
admin_handle_balance_operation_write(user_id, target_user_id, amount, outcome) ==
    LET users == get_users(usersDb)
        user == get_user(users, target_user_id)
        new_balance == Val(user).balance + amount
    IN
    IF ~check_admin(users, load_config(config, defaults), user_id)
    THEN Refused("no_rights")
    ELSE IF amount <= 0 THEN Refused("amount_not_positive")
    ELSE IF IsNone(user) THEN Refused("user_not_found")
    ELSE
        /\ new_balance <= BalanceStep
        /\ usersDb' = save_document(usersDb,
                        save_user(users, target_user_id,
                                  [Val(user) EXCEPT !.balance = new_balance]),
                        outcome)
        /\ reply' = Answer("balance_changed", 0)
        /\ UNCHANGED <<config, ordersDb, Concurrent>>

FaultNext ==
    \E oc \in WriteOutcomes :
        \/ \E in \in OrderInputs : create_order_write(in[1], in[2], in[3], oc)
        \/ \E u \in RateCallers, o \in 1 .. MaxPlaced :
                operator_take_order_write(u, o, oc)
        \/ \E u \in RateCallers : admin_handle_balance_operation_write(u, 1, F(50), oc)
        \/ \E u \in AdminTargets : add_admin(u, oc)

FaultSpec == Init /\ [][FaultNext]_vars

\* C15: an operation that answers as after a successful write has written:
\* the order create_order returned is in the orders file, the order a take
\* reported as taken is in_progress there, the credited balance is in the
\* users file, and the added admin is in the config file
C15_FailedSaveReported ==
    [][\A oc \in WriteOutcomes :
          /\ \A in \in OrderInputs :
                (create_order_write(in[1], in[2], in[3], oc)
                    /\ reply'.answer = "created")
                => /\ ordersDb' # Unreadable
                   /\ \E i \in DOMAIN Stored' : Stored'[i].id = reply'.id
          /\ \A u \in RateCallers, o \in 1 .. MaxPlaced :
                (operator_take_order_write(u, o, oc) /\ reply'.answer = "taken")
                => /\ ordersDb' # Unreadable
                   /\ Val(get_order(ordersDb', o)).status = "in_progress"
          /\ \A u \in RateCallers :
                ( /\ admin_handle_balance_operation_write(u, 1, F(50), oc)
                  /\ reply'.answer = "balance_changed" )
                => /\ usersDb' # Unreadable
                   /\ usersDb'[1].balance = get_users(usersDb)[1].balance + F(50)
          /\ \A u \in AdminTargets :
                (add_admin(u, oc) /\ reply'.answer = "admin_added")
                => /\ config' # Unreadable
                   /\ u \in SeqToSet(config'.admin_ids)]_vars

\* ------------------------------------------------- registration and roles
\* who sends /start, and the number a deep link carries
StartUsers == {1, 2, 3}
StartArgs == {None} \cup {Some(r) : r \in StartUsers}
Roles == {"user", "operator", "admin", "blocked"}

add_referral_unchecked(users, user_id, referral_id) ==
    LET user == get_user(users, user_id) IN
    IF IsNone(user) THEN users
    ELSE save_user(users, user_id,
            [Val(user) EXCEPT !.referrals = Append(@, referral_id)])

\* the users document after add_referral
add_referral(users, user_id, referral_id) ==
    LET user == get_user(users, user_id) IN
    IF IsNone(user) THEN users
    ELSE IF referral_id \in SeqToSet(Val(user).referrals) THEN users
    ELSE save_user(users, user_id,
            [Val(user) EXCEPT !.referrals = Append(@, referral_id)])

\* what /start answered to whom, and the parameter it came with
Welcome(user_id, args) == [answer |-> "welcome", id |-> user_id, args |-> args]

start_command_again(user_id, args) ==
    LET referral_id == IF args # None /\ Val(args) = user_id THEN None ELSE args
        created == save_user(usersDb, user_id,
                             UserRecord("user", <<>>, referral_id))
    IN
    /\ usersDb' = IF IsNone(referral_id) THEN created
                  ELSE add_referral(created, Val(referral_id), user_id)
    /\ reply' = Welcome(user_id, args)
    /\ UNCHANGED <<config, ordersDb, Concurrent>>

start_command(user_id, args) ==
    LET referral_id == IF args # None /\ Val(args) = user_id THEN None ELSE args
        user_data == get_user(usersDb, user_id)
        created == save_user(usersDb, user_id,
                             UserRecord("user", <<>>, referral_id))
    IN
    /\ usersDb' = IF ~IsNone(user_data) THEN usersDb
                  ELSE IF IsNone(referral_id) THEN created
                  ELSE add_referral(created, Val(referral_id), user_id)
    /\ reply' = Welcome(user_id, args)
    /\ UNCHANGED <<config, ordersDb, Concurrent>>

\* the loaded config after add_admin and after remove_admin, or None when
\* the function found nothing to change and did not write
added_admin(loaded, user_id) ==
    IF user_id \notin SeqToSet(loaded.admin_ids)
    THEN Some([loaded EXCEPT !.admin_ids = Append(@, user_id)])
    ELSE None

removed_admin(loaded, user_id) ==
    IF user_id \in SeqToSet(loaded.admin_ids)
    THEN Some([loaded EXCEPT !.admin_ids = RemoveFirst(@, user_id)])
    ELSE None

\* admin_set_user_role; the role test of the elif reads the record the
\* new role was just written into
admin_set_user_role(user_id, target_user_id, role) ==
    LET loaded == load_config(config, defaults)
        user == get_user(usersDb, target_user_id)
        changed == [Val(user) EXCEPT !.role = role]
        written == IF role = "admin" THEN added_admin(loaded, target_user_id)
                   ELSE IF changed.role = "admin" /\ role # "admin"
                   THEN removed_admin(loaded, target_user_id)
                   ELSE None
    IN
    IF ~check_admin(usersDb, loaded, user_id) THEN Reject("no_rights", 0)
    ELSE IF IsNone(user) THEN Reject("user_not_found", 0)
    ELSE
        /\ usersDb' = save_user(usersDb, target_user_id, changed)
        /\ config' = IF IsNone(written) THEN config
                     ELSE save_config(config, Val(written), "written")
        /\ defaults' = IF IsNone(written) THEN defaults
                       ELSE Aliased(config, defaults, Val(written))
        /\ reply' = [answer |-> "role_changed", id |-> target_user_id,
                     role |-> role]
        /\ UNCHANGED <<ordersDb, commandsDb, procs, calls, probe, locks>>

\* a fresh installation: nobody has sent /start yet
StartInit ==
    /\ config = StartConfig
    /\ usersDb = <<>>
    /\ ordersDb = EmptyOrders
    /\ commandsDb = <<>>
    /\ reply = Answer("started", 0)
    /\ procs = [p \in Procs |-> Idle]
    /\ calls = 0
    /\ probe = None
    /\ defaults = DEFAULT_CONFIG
    /\ locks = Unlocked

RoleCallers == {2, ADMIN_ID}
RoleTargets == {2}

StartNext ==
    \/ \E u \in StartUsers, args \in StartArgs : start_command(u, args)
    \/ \E u \in RoleCallers, t \in RoleTargets, role \in Roles :
            admin_set_user_role(u, t, role)

StartSpec == StartInit /\ [][StartNext]_vars

\* add_referral called on its own
add_referral_call(user_id, referral_id) ==
    /\ usersDb' = add_referral(usersDb, user_id, referral_id)
    /\ reply' = [answer |-> "add_referral", id |-> user_id,
                 referral_id |-> referral_id,
                 present |-> /\ user_id \in DOMAIN usersDb
                             /\ referral_id \in SeqToSet(usersDb[user_id].referrals)]
    /\ UNCHANGED <<config, ordersDb, Concurrent>>

\* whose lists are followed
ListUsers == {1, 2}

ReferralListNext ==
    \/ \E u \in ListUsers, args \in {None, Some(1)} : start_command(u, args)
    \/ \E u \in ListUsers, r \in StartUsers : add_referral_call(u, r)

ReferralListSpec == StartInit /\ [][ReferralListNext]_vars

\* C21: no identifier occurs more than once in any user's referrals list
C21_ReferralsAreSet ==
    \A u \in DOMAIN usersDb : NoDuplicates(usersDb[u].referrals)

\* user 2 is already in the list of user 1 when add_referral is called for
\* 2 again, and user 3 was added as well
C21_Witness ==
    /\ reply.answer = "add_referral" /\ reply.present
    /\ reply.id = 1 /\ reply.referral_id = 2
    /\ SeqToSet(usersDb[1].referrals) = {2, 3}

\* C22: no step changes the referrer_id of a registered user or removes
\* the user
C22_ReferrerFixed ==
    [][\A u \in DOMAIN usersDb :
          /\ u \in DOMAIN usersDb'
          /\ usersDb'[u].referrer_id = usersDb[u].referrer_id]_vars

\* user 1, registered through the link of 2, sent /start 3 afterwards
C22_Witness ==
    /\ reply.answer = "welcome" /\ reply.id = 1 /\ reply.args = Some(3)
    /\ 1 \in DOMAIN usersDb
    /\ usersDb[1].referrer_id = Some(2)

\* C28: the referrer of every user is another registered user who lists
\* the user, and everyone a user lists names that user as referrer
C28_ReferralLinks ==
    \A u \in DOMAIN usersDb :
        /\ ~IsNone(usersDb[u].referrer_id) =>
              LET r == Val(usersDb[u].referrer_id) IN
              /\ r # u
              /\ r \in DOMAIN usersDb
              /\ u \in SeqToSet(usersDb[r].referrals)
        /\ \A v \in SeqToSet(usersDb[u].referrals) :
              /\ v \in DOMAIN usersDb
              /\ usersDb[v].referrer_id = Some(u)

\* C27: after admin_set_user_role the target is in admin_ids exactly when
\* its new role is admin
C27_RoleMatchesAdminList ==
    [][\A u \in RoleCallers, t \in RoleTargets, role \in Roles :
          (admin_set_user_role(u, t, role) /\ reply'.answer = "role_changed")
          => (t \in SeqToSet(AdminIds') <=> usersDb'[t].role = "admin")]_vars

\* ------------------------------------------ the effects of a completion
\* how many stored orders of this owner are completed
CompletedOrdersOf(u) ==
    Cardinality({i \in DOMAIN Stored : /\ Stored[i].user_id = u
                                       /\ Stored[i].status = "completed"})

\* what the completed orders among these are worth to referrer r: one
\* bonus for each completed order with a spread whose owner r referred
RECURSIVE BonusesDue(_, _)
BonusesDue(orders, r) ==
    IF orders = <<>> THEN 0
    ELSE LET o == Head(orders)
             due == /\ o.status = "completed"
                    /\ Val(o.spread) > 0
                    /\ o.user_id \in DOMAIN usersDb
                    /\ usersDb[o.user_id].referrer_id = Some(r)
             paid == process_referral_bonus(usersDb, config, o.user_id,
                                            Val(o.spread))
         IN  (IF due THEN paid[r].balance - usersDb[r].balance ELSE 0)
                + BonusesDue(Tail(orders), r)

\* order 1 of user 1 was placed and operator 4 took it
TakenOrders ==
    UpdatedDoc(CreatedDoc(EmptyOrders, 1, "buy", F(5880)), 1, TakeUpdates(4))

CompletionInit ==
    /\ config = StartConfig
    /\ usersDb = InitUsers
    /\ ordersDb = TakenOrders
    /\ commandsDb = <<>>
    /\ reply = Answer("taken", 0)
    /\ procs = [p \in Procs |-> Idle]
    /\ calls = 0
    /\ probe = None
    /\ defaults = DEFAULT_CONFIG
    /\ locks = Unlocked

\* the complete button of order 1 pressed while another press of it may
\* still be handled
CompletionNext ==
    \E p \in Procs :
        \/ \E u \in RateCallers : complete_get_order(p, u, 1)
        \/ update_order_load(p)
        \/ complete_save(p)
        \/ \E d \in BOOLEAN : notify(p, d)
        \/ bonus_get_user(p)
        \/ bonus_get_referrer(p)
        \/ stats_get_user(p)
        \/ save_user_load(p)
        \/ save_user_save(p)
        \/ return(p)

CompletionSpec == CompletionInit /\ [][CompletionNext]_vars

C24_EffectsApplied ==
    \A u \in DOMAIN usersDb :
        /\ usersDb[u].completed_orders >= CompletedOrdersOf(u)
        /\ usersDb[u].balance >= BonusesDue(Stored, u)

\* C25: a complete request for an in_progress order from anyone but the
\* operator recorded in operator_id changes nothing and an operator or
\* admin who sends it is told the order is another operator's; a step that
\* completes an order is the complete of its recorded operator and leaves
\* operator_id and operator_username as they were
C25_AssignedOperatorCompletes ==
    [][/\ \A o \in OrderIds :
            LET order == get_order(ordersDb, o) IN
            (~IsNone(order) /\ Val(order).status = "in_progress")
            => \A u \in Callers :
                 Val(order).operator_id # Some(u)
                 => \A d \in BOOLEAN :
                      operator_complete_order(u, o, d)
                      => /\ ordersDb' = ordersDb
                         /\ usersDb' = usersDb
                         /\ check_operator(usersDb, config, u)
                                => reply'.answer = "other_operator"
       /\ \A i \in DOMAIN Stored :
            Completing(i)
            => /\ Stored[i].status = "in_progress"
               /\ Stored'[i].operator_id = Stored[i].operator_id
               /\ Stored'[i].operator_username = Stored[i].operator_username
               /\ \E u \in Callers, d \in BOOLEAN :
                     /\ Stored[i].operator_id = Some(u)
                     /\ operator_complete_order(u, Stored[i].id, d)]_vars

\* the super-admin was just refused on an order operator 4 holds, and an
\* order 4 completed still names 4
C25_Witness ==
    /\ reply.answer = "other_operator"
    /\ \E i \in DOMAIN Stored : /\ Stored[i].status = "in_progress"
                                /\ Stored[i].operator_id = Some(4)
    /\ \E i \in DOMAIN Stored : /\ Stored[i].status = "completed"
                                /\ Stored[i].operator_id = Some(4)
                                /\ Stored[i].operator_username
                                        = Some(OperatorUsername(4))

\* C26: in a readable orders file next_id is greater than the id of every
\* stored order, and a create_order that follows one which returned an id,
\* and that meets a file get_orders cannot read, returns a greater id
C26_NextIdAboveIssued ==
    [][/\ ordersDb' # Unreadable
            => \A i \in DOMAIN ordersDb'.orders :
                    ordersDb'.orders[i].id < ordersDb'.next_id
       /\ \A oc \in WriteOutcomes, in \in OrderInputs :
            ( /\ ordersDb = Unreadable
              /\ reply.answer = "created"
              /\ create_order_write(in[1], in[2], in[3], oc) )
            => reply'.id > reply.id]_vars

\* C29: the in-memory default configuration is the one the module defined,
\* and a load_config that falls back on it returns those values
C29_DefaultsUntouched ==
    /\ defaults = DEFAULT_CONFIG
    /\ config = Unreadable => load_config(config, defaults) = DEFAULT_CONFIG

\* ------------------------------------------------- the locks of the stores
\* the six functions that touch a file, and the lock each one takes
StoreCalls == {"get_users", "save_users", "get_orders", "save_orders",
               "get_commands", "save_commands"}

LockOf(f) ==
    CASE f \in {"get_users", "save_users"} -> "user_lock"
      [] f \in {"get_orders", "save_orders"} -> "order_lock"
      [] OTHER -> "command_lock"

\* a handler calls one of the six
store_call(p, f) ==
    /\ Begin(p)
    /\ Goto(p, [Idle EXCEPT !.pc = "acquire", !.args.name = f])
    /\ UNCHANGED <<ordersDb, usersDb, commandsDb, Rest>>

\* async with lock: __aenter__ goes on once the lock is free
acquire(p) ==
    LET lock == LockOf(procs[p].args.name) IN
    /\ At(p, {"acquire"})
    /\ IsNone(locks[lock])
    /\ locks' = [locks EXCEPT ![lock] = Some(p)]
    /\ Goto(p, [procs[p] EXCEPT !.pc = "inside"])
    /\ UNCHANGED <<config, usersDb, ordersDb, commandsDb, reply, calls, probe,
                   defaults>>

file_access_raising(p, raised) ==
    /\ At(p, {"inside"})
    /\ IF raised
       THEN Done(p, "raised", 0)
       ELSE Goto(p, [procs[p] EXCEPT !.pc = "release", !.args.text = "done"])
    /\ UNCHANGED <<ordersDb, usersDb, commandsDb, calls, Rest>>

\* the open and the json call inside try; what they raise is caught by the
\* except of the same try, inside the with block
file_access(p, raised) ==
    /\ At(p, {"inside"})
    /\ Goto(p, [procs[p] EXCEPT !.pc = "release",
                                !.args.text = IF raised THEN "raised"
                                              ELSE "done"])
    /\ UNCHANGED <<ordersDb, usersDb, commandsDb, calls, Rest>>

\* __aexit__ releases the lock and the function returns
release(p) ==
    LET lock == LockOf(procs[p].args.name) IN
    /\ At(p, {"release"})
    /\ locks' = [locks EXCEPT ![lock] = None]
    /\ Done(p, procs[p].args.text, 0)
    /\ UNCHANGED <<config, usersDb, ordersDb, commandsDb, reply, calls, probe,
                   defaults>>

LockNext ==
    \E p \in Procs :
        \/ \E f \in StoreCalls : store_call(p, f)
        \/ acquire(p)
        \/ \E raised \in BOOLEAN : file_access(p, raised)
        \/ release(p)
        \/ return(p)

\* every task that can run does run, and asyncio.Lock wakes its waiters in
\* the order they came
LockFairSpec ==
    /\ Init /\ [][LockNext]_vars
    /\ \A p \in Procs :
        /\ SF_vars(acquire(p))
        /\ WF_vars(\E raised \in BOOLEAN : file_access(p, raised))
        /\ WF_vars(release(p))
        /\ WF_vars(return(p))

\* the locks p holds
HeldBy(p) == {l \in Locks : locks[l] = Some(p)}

\* C30: a task holds a lock only between its acquire and its release and
\* never two of them, a task waiting for a lock waits only while that lock
\* is held, and every store call that was started returns
C30_LocksDoNotDeadlock ==
    /\ [](\A p \in Procs :
            /\ procs[p].pc \in {"inside", "release"}
                    => HeldBy(p) = {LockOf(procs[p].args.name)}
            /\ procs[p].pc \notin {"inside", "release"} => HeldBy(p) = {}
            /\ (procs[p].pc = "acquire"
                    /\ IsNone(locks[LockOf(procs[p].args.name)]))
                    => ENABLED acquire(p))
    /\ \A p \in Procs : (procs[p].pc = "acquire") ~> (procs[p].pc = "done")

\* the file access of task a raised and a has returned holding nothing,
\* while b is inside its own with block
C30_Witness ==
    /\ procs["a"].pc = "done"
    /\ Val(procs["a"].ret).answer = "raised"
    /\ HeldBy("a") = {}
    /\ procs["b"].pc = "inside"

====
